---- MODULE Spec2Model ----
(***************************************************************************)
(* Model of the S3 file tools: src/main.py (the three MCP tools) and       *)
(* src/utils.py (class S3Manager).                                         *)
(*                                                                         *)
(* Strings whose structure matters (local paths, object keys, file         *)
(* extensions) are sequences of one-character strings, so that prefix,     *)
(* suffix and concatenation are computed and not assumed.  File contents   *)
(* are sequences of bytes.                                                 *)
(*                                                                         *)
(* The S3 service is outside the repository.  It is modelled as a map      *)
(* bucket -> key -> object with an atomic put_object (the object is stored *)
(* iff the call returns) and a head_object that answers from that map.     *)
(* The outcome of each remote call (served, refused with a ClientError,    *)
(* or failed in transport with a BotoCoreError) is an input of the call.   *)
(* uuid.uuid4() is modelled as a draw among the identifiers not drawn     *)
(* before (a 122-bit random value; repeats are not modelled).              *)
(***************************************************************************)
EXTENDS Integers, Sequences, FiniteSets, TLC

VARIABLES
    bucket_name,   \* S3Manager.bucket_name
    s3_client,     \* S3Manager.s3_client
    s3,            \* the service: bucket -> (key -> object)
    fs,            \* the local filesystem: path -> NoFile | Dir | file content
    issued,        \* identifiers uuid.uuid4() has produced so far
    returned,      \* key -> content, for every UploadResult returned so far
    last           \* the outcome of the last tool call

vars == <<bucket_name, s3_client, s3, fs, issued, returned, last>>

(***************************************************************************)
(* Bounds                                                                  *)
(***************************************************************************)
NumUUIDs == 2

UUIDs == 0 .. (NumUUIDs - 1)

(***************************************************************************)
(* Text helpers                                                            *)
(***************************************************************************)
\* str.rfind(ch): the last index of ch in s, 0 when absent (Python: -1)
rfind(s, ch) ==
    LET hits == {i \in 1 .. Len(s) : s[i] = ch}
    IN  IF hits = {} THEN 0 ELSE CHOOSE i \in hits : \A j \in hits : j <= i

StartsWith(s, p) == Len(p) <= Len(s) /\ SubSeq(s, 1, Len(p)) = p

EndsWith(s, p) == Len(p) <= Len(s) /\ SubSeq(s, Len(s) - Len(p) + 1, Len(s)) = p

\* PurePath.name: the final component of the path
PathName(p) == SubSeq(p, rfind(p, "/") + 1, Len(p))

\* PurePath.suffix: from the last dot of the final component, unless that
\* dot is its first or its last character
PathSuffix(p) ==
    LET name == PathName(p)
        i    == rfind(name, ".")
    IN  IF 1 < i /\ i < Len(name) THEN SubSeq(name, i, Len(name)) ELSE <<>>

\* posixpath.splitext(p)[1]: from the last dot after the last separator,
\* unless only dots precede it in the file name
RECURSIVE OnlyDots(_, _, _)
OnlyDots(p, from, to) ==
    IF from >= to THEN TRUE
    ELSE IF p[from] # "." THEN FALSE
    ELSE OnlyDots(p, from + 1, to)

splitext(p) ==
    LET sepIndex == rfind(p, "/")
        dotIndex == rfind(p, ".")
    IN  IF dotIndex > sepIndex /\ ~OnlyDots(p, sepIndex + 1, dotIndex)
        THEN SubSeq(p, dotIndex, Len(p))
        ELSE <<>>

\* fixed-width hex rendering of a number: distinct values render distinctly
HexDigit == <<"0", "1", "2", "3", "4", "5", "6", "7",
              "8", "9", "a", "b", "c", "d", "e", "f">>

Hex2(n) == <<HexDigit[((n \div 16) % 16) + 1], HexDigit[(n % 16) + 1]>>

\* str(uuid.uuid4()), shortened to two hex digits
UuidStr(u) == Hex2(u)

(***************************************************************************)
(* The local filesystem                                                    *)
(***************************************************************************)
NoFile     == [kind |-> "absent", data |-> <<>>]
Dir        == [kind |-> "dir", data |-> <<>>]
File(data) == [kind |-> "file", data |-> data]

P_notes   == <<"/", "a", ".", "t", "x", "t">>      \* /a.txt   a text file
P_dotdir  == <<"/", "d", ".", "x">>                \* /d.x     a directory
P_plain   == <<"/", "d", ".", "x", "/", "c">>      \* /d.x/c   no extension
P_hidden  == <<"/", ".", "r", "c">>                \* /.rc     hidden, empty
P_missing == <<"/", "n", ".", "t", "x", "t">>      \* /n.txt   does not exist

Paths == {P_notes, P_dotdir, P_plain, P_hidden, P_missing}

\* the files on disk when the server starts; no tool writes to the disk
LocalFiles ==
    [p \in Paths |->
        CASE p = P_notes  -> File(<<1, 2, 3>>)
          [] p = P_dotdir -> Dir
          [] p = P_plain  -> File(<<4>>)
          [] p = P_hidden -> File(<<>>)
          [] OTHER        -> NoFile]

\* os.path.exists: true of files and of directories
os_path_exists(fsys, p) == fsys[p].kind # "absent"

(***************************************************************************)
(* Outcomes of a call: a returned value or a raised exception, with the    *)
(* remote requests the call issued.                                        *)
(***************************************************************************)
NoValue == [none |-> TRUE]

Returned(value, calls) ==
    [status |-> "returned", value |-> value, exc |-> "", calls |-> calls]

Raised(exc, calls) ==
    [status |-> "raised", value |-> NoValue, exc |-> exc, calls |-> calls]

\* only the first byte of the file is read
open_read_FirstByte(fsys, p) ==
    CASE fsys[p].kind = "absent" -> Raised("FileNotFoundError", <<>>)
      [] fsys[p].kind = "dir"    -> Raised("IsADirectoryError", <<>>)
      [] OTHER -> Returned([data |-> IF fsys[p].data = <<>> THEN <<>>
                                     ELSE <<fsys[p].data[1]>>], <<>>)

\* open(file_path, "rb").read()
open_read(fsys, p) ==
    CASE fsys[p].kind = "absent" -> Raised("FileNotFoundError", <<>>)
      [] fsys[p].kind = "dir"    -> Raised("IsADirectoryError", <<>>)
      [] OTHER                   -> Returned([data |-> fsys[p].data], <<>>)

\* mimetypes.types_map, restricted to the extensions of Paths
EXT_txt == <<".", "t", "x", "t">>

types_map == [e \in {EXT_txt} |-> "text/plain"]

\* mimetypes.guess_type(file_path)[0]; "None" when the type is unknown
guess_type(p) ==
    LET ext == splitext(p)
    IN  IF ext \in DOMAIN types_map THEN types_map[ext] ELSE "None"

(***************************************************************************)
(* The S3 service                                                          *)
(***************************************************************************)
Buckets == {"media", "backup"}

Regions == {"eu-west-1"}

\* what can happen to one remote request
RemoteOutcomes == {"ok", "AccessDenied", "Transport"}

\* botocore raises ClientError for an error response of the service and a
\* BotoCoreError (not a ClientError) when the request never got an answer
RemoteExc(outcome) ==
    IF outcome = "AccessDenied" THEN "ClientError" ELSE "BotoCoreError"

\* the request names a fixed bucket instead of the configured one
PutRequest_FixedBucket(bucket, key, body, content_type) ==
    [op |-> "put_object", Bucket |-> "media", Key |-> key,
     Body |-> body, ContentType |-> content_type]

PutRequest(bucket, key, body, content_type) ==
    [op |-> "put_object", Bucket |-> bucket, Key |-> key,
     Body |-> body, ContentType |-> content_type]

HeadRequest(bucket, key) ==
    [op |-> "head_object", Bucket |-> bucket, Key |-> key,
     Body |-> <<>>, ContentType |-> ""]

\* the service's state after a put_object request with the given outcome
put_object(store, req, outcome) ==
    IF outcome # "ok" THEN store
    ELSE LET objs == store[req.Bucket]
             obj  == [Body |-> req.Body, ContentType |-> req.ContentType,
                      LastModified |-> Cardinality(DOMAIN objs) + 1]
         IN  [store EXCEPT ![req.Bucket] =
                 [k \in DOMAIN objs \cup {req.Key} |->
                     IF k = req.Key THEN obj ELSE objs[k]]]

\* the answer to a head_object request with the given outcome
head_object(store, req, outcome) ==
    LET objs == store[req.Bucket]
    IN  IF outcome # "ok" THEN Raised(RemoteExc(outcome), <<req>>)
        ELSE IF req.Key \notin DOMAIN objs THEN Raised("ClientError", <<req>>)
        ELSE Returned([ContentLength |-> Len(objs[req.Key].Body),
                       ContentType   |-> objs[req.Key].ContentType,
                       LastModified  |-> objs[req.Key].LastModified],
                      <<req>>)

(***************************************************************************)
(* class S3Manager (src/utils.py)                                          *)
(***************************************************************************)
KeyPrefix == <<"u", "s", "e", "r", "_", "u", "p", "l", "o", "a", "d", "s", "/">>

\* the identifier is computed once and reused for every key
MintKey_FixedId(uuid, file_extension) == KeyPrefix \o UuidStr(0) \o file_extension

\* key = f"user_uploads/{uuid.uuid4()}{file_extension}"
MintKey(uuid, file_extension) == KeyPrefix \o UuidStr(uuid) \o file_extension

\* the missing file is reported in a returned dictionary instead of raised
MissingFile_ErrorDict(file_path) ==
    Returned([file_key |-> <<>>, status |-> "error",
              message |-> <<"File not found: ">> \o file_path,
              s3_location |-> <<>>], <<>>)

\* if not os.path.exists(file_path): raise FileNotFoundError(...)
MissingFile(file_path) == Raised("FileNotFoundError", <<>>)

\* content_type, defaulting to the generic binary type
ContentTypeOf(file_path) ==
    IF guess_type(file_path) = "None" THEN "application/octet-stream"
    ELSE guess_type(file_path)

\* the dictionary upload_file returns
UploadResult(bucket, key, file_path) ==
    [file_key    |-> key,
     status      |-> "success",
     message     |-> <<"File uploaded successfully from ">> \o file_path,
     s3_location |-> <<"s3://", bucket, "/">> \o key]

\* the put_object call is wrapped in a try/except that ignores the failure
AfterPut_Swallow(bucket, key, file_path, req, outcome) ==
    Returned(UploadResult(bucket, key, file_path), <<req>>)

\* what upload_file does once put_object has returned or raised
AfterPut(bucket, key, file_path, req, outcome) ==
    IF outcome = "ok" THEN Returned(UploadResult(bucket, key, file_path), <<req>>)
    ELSE Raised(RemoteExc(outcome), <<req>>)

\* S3Manager.upload_file: the outcome of the call and the service's state
\* after it; uuid is the value uuid.uuid4() draws, outcome the fate of the
\* put_object request
S3Manager_upload_file(bucket, fsys, store, file_path, uuid, outcome) ==
    IF ~os_path_exists(fsys, file_path)
    THEN [res |-> MissingFile(file_path), store |-> store, drew |-> FALSE]
    ELSE LET content_type   == ContentTypeOf(file_path)
             file_extension == PathSuffix(file_path)
             key            == MintKey(uuid, file_extension)
             file           == open_read(fsys, file_path)
         IN  IF file.status = "raised"
             THEN [res |-> file, store |-> store, drew |-> TRUE]
             ELSE LET req == PutRequest(bucket, key, file.value.data, content_type)
                  IN  [res   |-> AfterPut(bucket, key, file_path, req, outcome),
                       store |-> put_object(store, req, outcome),
                       drew  |-> TRUE]

\* datetime.isoformat()
isoformat(t) == <<"T">> \o Hex2(t)

\* the size is read from a response field that does not exist
FileInfo_NoSize(file_key, response) ==
    [file_key      |-> file_key,
     exists        |-> TRUE,
     size_bytes    |-> 0,
     content_type  |-> response.ContentType,
     last_modified |-> IF response.LastModified # 0
                       THEN isoformat(response.LastModified) ELSE <<>>,
     error         |-> ""]

\* the dictionary get_file_info returns for an object that exists
FileInfo(file_key, response) ==
    [file_key      |-> file_key,
     exists        |-> TRUE,
     size_bytes    |-> response.ContentLength,
     content_type  |-> response.ContentType,
     last_modified |-> IF response.LastModified # 0
                       THEN isoformat(response.LastModified) ELSE <<>>,
     error         |-> ""]

\* the dictionary get_file_info returns from its except ClientError branch
NotFoundInfo(file_key) ==
    [file_key      |-> file_key,
     exists        |-> FALSE,
     size_bytes    |-> 0,
     content_type  |-> "",
     last_modified |-> <<>>,
     error         |-> "File not found"]

\* get_file_info without its except ClientError branch
S3Manager_get_file_info_NoExcept(bucket, store, file_key, outcome) ==
    LET response == head_object(store, HeadRequest(bucket, file_key), outcome)
    IN  IF response.status = "returned"
        THEN Returned(FileInfo(file_key, response.value), response.calls)
        ELSE Raised(response.exc, response.calls)

\* S3Manager.get_file_info; outcome is the fate of the head_object request
S3Manager_get_file_info(bucket, store, file_key, outcome) ==
    LET response == head_object(store, HeadRequest(bucket, file_key), outcome)
    IN  IF response.status = "returned"
        THEN Returned(FileInfo(file_key, response.value), response.calls)
        ELSE IF response.exc = "ClientError"
        THEN Returned(NotFoundInfo(file_key), response.calls)
        ELSE Raised(response.exc, response.calls)

\* the attributes an S3Manager instance has
S3Manager_attributes ==
    {"s3_client", "bucket_name", "upload_file", "get_file_info"}

(***************************************************************************)
(* The tools (src/main.py)                                                 *)
(***************************************************************************)
NoArgs == [file_path |-> <<>>, file_key |-> <<>>, destination_path |-> <<>>]

\* keys a caller may ask about: every key upload can mint, and one other
Exts == {PathSuffix(p) : p \in {q \in Paths : LocalFiles[q].kind = "file"}}

K_other == KeyPrefix \o <<"z", "z">>

Keys == {KeyPrefix \o UuidStr(u) \o e : u \in UUIDs, e \in Exts} \cup {K_other}

\* destinations a caller may name: a new path, a directory, an existing file
DestPaths == {P_missing, P_dotdir, P_notes}

NoObjects == [k \in {} |-> NoValue]

Init ==
    /\ bucket_name \in Buckets
    /\ s3_client \in [service : {"s3"}, region_name : Regions]
    /\ s3 = [b \in Buckets |-> NoObjects]
    /\ fs = LocalFiles
    /\ issued = {}
    /\ returned = NoObjects
    /\ last = [op |-> "none", args |-> NoArgs, remote |-> "ok",
               res |-> Returned(NoValue, <<>>)]

upload_file ==
    \E file_path \in Paths :
    \E uuid \in IF os_path_exists(fs, file_path) THEN UUIDs \ issued ELSE {0} :
    \E outcome \in IF fs[file_path].kind = "file" THEN RemoteOutcomes ELSE {"ok"} :
        LET r == S3Manager_upload_file(bucket_name, fs, s3, file_path, uuid, outcome)
        IN  /\ last' = [op |-> "upload_file",
                        args |-> [NoArgs EXCEPT !.file_path = file_path],
                        remote |-> outcome, res |-> r.res]
            /\ s3' = r.store
            /\ issued' = IF r.drew THEN issued \cup {uuid} ELSE issued
            /\ returned' =
                 IF r.res.status = "returned"
                 THEN [k \in DOMAIN returned \cup {r.res.value.file_key} |->
                          IF k = r.res.value.file_key THEN fs[file_path].data
                          ELSE returned[k]]
                 ELSE returned
            /\ UNCHANGED <<bucket_name, s3_client, fs>>

get_file_info ==
    \E file_key \in Keys, outcome \in RemoteOutcomes :
        /\ last' = [op |-> "get_file_info",
                    args |-> [NoArgs EXCEPT !.file_key = file_key],
                    remote |-> outcome,
                    res |-> S3Manager_get_file_info(bucket_name, s3, file_key, outcome)]
        /\ UNCHANGED <<bucket_name, s3_client, s3, fs, issued, returned>>

\* s3_manager.download_file is looked up on the instance before any call
download_file ==
    \E file_key \in Keys, destination_path \in DestPaths :
        /\ "download_file" \notin S3Manager_attributes
        /\ last' = [op |-> "download_file",
                    args |-> [NoArgs EXCEPT !.file_key = file_key,
                                            !.destination_path = destination_path],
                    remote |-> "ok",
                    res |-> Raised("AttributeError", <<>>)]
        /\ UNCHANGED <<bucket_name, s3_client, s3, fs, issued, returned>>

Next == upload_file \/ get_file_info \/ download_file

Spec == Init /\ [][Next]_vars

(***************************************************************************)
(* Properties                                                              *)
(***************************************************************************)
Bucket == s3[bucket_name]

IsUpload(l)  == l.op = "upload_file"
IsInfo(l)    == l.op = "get_file_info"
IsDownload(l) == l.op = "download_file"

UploadSucceeded(l) == IsUpload(l) /\ l.res.status = "returned"

PutCalls(l) == {i \in 1 .. Len(l.res.calls) : l.res.calls[i].op = "put_object"}

\* C1: an upload of a path that names nothing on the local filesystem
\* raises FileNotFoundError, issues no remote request and leaves every
\* bucket as it was.
C1_MissingLocalFile ==
    [][ (IsUpload(last') /\ ~os_path_exists(fs, last'.args.file_path))
          => /\ last'.res.status = "raised"
             /\ last'.res.exc = "FileNotFoundError"
             /\ last'.res.calls = <<>>
             /\ s3' = s3 ]_vars

C1_Witness ==
    /\ IsUpload(last)
    /\ fs[last.args.file_path].kind = "absent"
    /\ last.res.exc = "FileNotFoundError"
    /\ DOMAIN Bucket # {}

\* C2: the key a successful upload returns starts with "user_uploads/",
\* ends with the extension of the uploaded file (and has that extension and
\* no other), was returned by no earlier upload, and the upload leaves every
\* object that was already in the bucket as it was.
C2_FreshPrefixedKey ==
    [][ UploadSucceeded(last')
          => LET key == last'.res.value.file_key
                 ext == PathSuffix(last'.args.file_path)
             IN  /\ StartsWith(key, KeyPrefix)
                 /\ EndsWith(key, ext)
                 /\ PathSuffix(key) = ext
                 /\ key \notin DOMAIN returned
                 /\ \A k \in DOMAIN Bucket :
                       k \in DOMAIN s3'[bucket_name] /\ s3'[bucket_name][k] = Bucket[k] ]_vars

C2_Witness ==
    /\ UploadSucceeded(last)
    /\ PathSuffix(last.args.file_path) = EXT_txt
    /\ Cardinality(DOMAIN returned) = 2

\* C3: get_file_info on a key that an earlier upload returned, when the
\* service serves the lookup, returns exists = true and size_bytes equal to
\* the length of the content uploaded under that key, whatever calls were
\* made in between.
C3_InfoAfterUpload ==
    (IsInfo(last) /\ last.args.file_key \in DOMAIN returned /\ last.remote = "ok")
      => /\ last.res.status = "returned"
         /\ last.res.value.exists = TRUE
         /\ last.res.value.size_bytes = Len(returned[last.args.file_key])

C3_Witness ==
    /\ IsInfo(last)
    /\ last.remote = "ok"
    /\ last.args.file_key \in DOMAIN returned
    /\ Cardinality(DOMAIN returned) = 2
    /\ last.res.value.size_bytes > 0
    /\ \E k \in DOMAIN returned : Len(returned[k]) # last.res.value.size_bytes

\* C4: get_file_info on a key that no upload has returned, when the lookup
\* gets an answer from the service, returns (does not raise) a result with
\* that key, exists = false and error = "File not found".
C4_InfoNeverUploaded ==
    (IsInfo(last) /\ last.args.file_key \notin DOMAIN returned
                  /\ last.remote # "Transport")
      => /\ last.res.status = "returned"
         /\ last.res.value.file_key = last.args.file_key
         /\ last.res.value.exists = FALSE
         /\ last.res.value.error = "File not found"

C4_Witness ==
    /\ IsInfo(last)
    /\ last.remote = "ok"
    /\ last.args.file_key \notin DOMAIN returned
    /\ DOMAIN returned # {}
    /\ last.res.status = "returned"
    /\ last.res.value.exists = FALSE

\* C5: in get_file_info a remote error other than "object not found"
\* (permission denied, transport failure) is raised to the caller, and a
\* result with exists = false is never returned for an object that is in
\* the bucket.
C5_OnlyNotFoundDowngraded ==
    IsInfo(last)
      => /\ last.remote # "ok" => last.res.status = "raised"
         /\ (last.res.status = "returned" /\ last.res.value.exists = FALSE)
               => last.args.file_key \notin DOMAIN Bucket

\* C6: download_file on a key that an upload returned succeeds and leaves at
\* destination_path a file holding exactly the content uploaded under that
\* key.
C6_RoundTrip ==
    (IsDownload(last) /\ last.args.file_key \in DOMAIN returned)
      => /\ last.res.status = "returned"
         /\ fs[last.args.destination_path] = File(returned[last.args.file_key])

\* C7: download_file on a key that is not in the bucket raises a remote
\* failure, download_file to a destination that cannot be written raises a
\* local I/O error, and neither returns a result.
C7_DownloadFailures ==
    IsDownload(last)
      => /\ last.args.file_key \notin DOMAIN Bucket
              => /\ last.res.status = "raised"
                 /\ last.res.exc \in {"ClientError", "BotoCoreError"}
         /\ (last.args.file_key \in DOMAIN Bucket
               /\ fs[last.args.destination_path].kind = "dir")
              => /\ last.res.status = "raised"
                 /\ last.res.exc \in {"IsADirectoryError", "PermissionError", "OSError"}

\* C8: when the put_object request of an upload fails, upload_file raises
\* that failure, returns no result, has issued put_object exactly once, and
\* no bucket holds an object it did not hold before; in particular none
\* under the minted key.
C8_FailedPutPropagates ==
    [][ (IsUpload(last') /\ last'.remote # "ok"
           /\ fs[last'.args.file_path].kind = "file")
          => /\ last'.res.status = "raised"
             /\ last'.res.exc = RemoteExc(last'.remote)
             /\ Cardinality(PutCalls(last')) = 1
             /\ Len(last'.res.calls) = 1
             /\ last'.res.calls[1].Key \notin DOMAIN s3'[bucket_name]
             /\ s3' = s3
             /\ returned' = returned ]_vars

C8_Witness ==
    /\ IsUpload(last)
    /\ last.remote = "Transport"
    /\ fs[last.args.file_path].kind = "file"
    /\ last.res.status = "raised"
    /\ Len(last.res.calls) = 1
    /\ DOMAIN Bucket # {}

\* C9: a successful upload adds exactly one object to the configured
\* bucket, under the returned key, whose body is the whole content of the
\* local file; every other object and every other bucket is unchanged; the
\* result has status "success" and location "s3://<bucket>/<key>".
C9_UploadEffect ==
    [][ UploadSucceeded(last')
          => LET key == last'.res.value.file_key
             IN  /\ key \notin DOMAIN Bucket
                 /\ DOMAIN s3'[bucket_name] = DOMAIN Bucket \cup {key}
                 /\ s3'[bucket_name][key].Body = fs[last'.args.file_path].data
                 /\ \A k \in DOMAIN Bucket : s3'[bucket_name][k] = Bucket[k]
                 /\ \A b \in Buckets \ {bucket_name} : s3'[b] = s3[b]
                 /\ last'.res.value.status = "success"
                 /\ last'.res.value.s3_location
                       = <<"s3://", bucket_name, "/">> \o key ]_vars

C9_Witness ==
    /\ UploadSucceeded(last)
    /\ Cardinality(DOMAIN Bucket) = 2
    /\ Len(fs[last.args.file_path].data) > 1
    /\ Bucket[last.res.value.file_key].Body = fs[last.args.file_path].data

\* C10: no tool call changes the manager's bucket name or client handle,
\* every remote request names the configured bucket, no other bucket
\* changes, and get_file_info changes no bucket.
C10_StatelessFacade ==
    [][ /\ bucket_name' = bucket_name
        /\ s3_client' = s3_client
        /\ \A i \in 1 .. Len(last'.res.calls) :
              last'.res.calls[i].Bucket = bucket_name
        /\ \A b \in Buckets \ {bucket_name} : s3'[b] = s3[b]
        /\ IsInfo(last') => s3' = s3 ]_vars

C10_Witness ==
    /\ IsInfo(last)
    /\ bucket_name = "backup"
    /\ Len(last.res.calls) = 1
    /\ last.res.calls[1].Bucket = "backup"
    /\ Cardinality(DOMAIN Bucket) = 2
    /\ s3["media"] = NoObjects

====
